---- MODULE Spec2Model ----
(***************************************************************************)
(* A model of the framebuffer crate (src/framebuffer/src/lib.rs): Color,   *)
(* FrameBuffer, StencilBuffer and the Canvas drawing operations.           *)
(*                                                                         *)
(* Spec        a Canvas over a FrameBuffer, driven by a bounded sequence   *)
(*             of calls.                                                   *)
(* SpecStencil a StencilBuffer driven by put_point / get_point calls.      *)
(* SpecBlend   Color::blend applied to colors drawn from bounded sets.     *)
(* SpecDraw    the rectangle, line and circle calls of a Canvas, each      *)
(*             run as a whole.                                             *)
(* SpecGradient: gfill_rect, gstroke_rect, gstroke_circle and              *)
(*             gfill_circle, each run as a whole.                          *)
(* SpecCircle  stroke_circle and fill_circle, one loop iteration at a      *)
(*             time; SpecCircleFair adds weak fairness of the steps.       *)
(* SpecLine    stroke_line, fill_line and gstroke_line, one iteration      *)
(*             at a time; SpecLineFair adds weak fairness.                 *)
(* SpecMask    Canvas::mask of a FrameBuffer by a StencilBuffer.           *)
(* SpecWrite   FrameBuffer::write to a stream that accepts part of         *)
(*             each buffer; SpecWriteFair adds weak fairness.              *)
(***************************************************************************)
EXTENDS Integers, Sequences, FiniteSets

VARIABLES
    canvas,     \* Canvas<Color, FrameBuffer>: [buffer, fill, stroke]
    prev,       \* the canvas as it was when the last call started
    call,       \* the last call: [op |-> name, its arguments]
    plotted,    \* the points the last call handed to buffer.put_point, in order
    ret,        \* what the last call returned: Unit, None, Some(v) or Panic
    nops,       \* the number of calls made so far
    stencil,    \* StencilBuffer: [pixels, width, height]
    stprev,     \* the stencil buffer as it was when the last call started
    bself,      \* Color::blend: the receiver (destination)
    bother,     \* Color::blend: the argument (source)
    bout,       \* Color::blend: the result, None before the call
    latest,     \* the paints last given to Canvas::new, set_fill and set_stroke
    frame,      \* the local variables of the loop in progress
    stream      \* the output stream: the bytes it has accepted and its replies

vars == <<canvas, prev, call, plotted, ret, nops, stencil, stprev, bself, bother, bout,
          latest, frame, stream>>

canvasVars == <<canvas, prev, plotted>>
stencilVars == <<stencil, stprev>>
blendVars == <<bself, bother, bout>>
loopVars == <<frame, stream>>

(***************************************************************************)
(* Bounds of the model.                                                    *)
(***************************************************************************)
MaxW == 2       \* buffer widths are 1..MaxW
MaxH == 2       \* buffer heights are 1..MaxH
MaxCoord == 2   \* coordinate arguments of the drawing calls are -1..MaxCoord
MaxExtent == 3  \* width and height arguments of rectangles are 0..MaxExtent
MaxOps == 2     \* calls per run
MaxRadius == 4  \* radius arguments of the circles are -1..MaxRadius
MaxLine == 4    \* end points of the stepped lines are -MaxLine..MaxLine
MaxChunk == 2   \* a stream accepts 1..MaxChunk bytes of a write, or all of them

\* Point coordinates: every column and row of the largest buffer, and one
\* past each edge.
XCoords == -1..MaxW
YCoords == -1..MaxH
\* Coordinates and extents of the drawing calls.
Coords == -1..MaxCoord
Extents == 0..MaxExtent
Radii == -1..MaxRadius
LineEnds == (-MaxLine)..MaxLine

(***************************************************************************)
(* Machine integers.                                                       *)
(***************************************************************************)
Byte == 0..255
AsU8(n) == n % 256
AsU16(n) == n % 65536

(***************************************************************************)
(* Option<T> and the outcomes of a call.                                   *)
(***************************************************************************)
None == [tag |-> "None"]
Some(v) == [tag |-> "Some", val |-> v]
Unit == [tag |-> "Unit"]
Panic == [tag |-> "Panic"]

\* io::Result<()>: Ok(()), or Err(e) with e of the given io::ErrorKind; and
\* the outcome of a call that has not returned yet.
Ok == [tag |-> "Ok"]
Err(kind) == [tag |-> "Err", kind |-> kind]
Pending == [tag |-> "Pending"]

(***************************************************************************)
(* Color                                                                   *)
(***************************************************************************)
rgb(r, g, b) == [r |-> r, g |-> g, b |-> b, alpha |-> 255]

rgba(r, g, b, alpha) == [r |-> r, g |-> g, b |-> b, alpha |-> alpha]

white == rgb(255, 255, 255)

black == rgb(0, 0, 0)

\* Color::mask: the color with only the selected channels kept.
Color_mask(self, r, g, b) ==
    [r |-> IF r THEN self.r ELSE 0,
     g |-> IF g THEN self.g ELSE 0,
     b |-> IF b THEN self.b ELSE 0,
     alpha |-> self.alpha]

\* The closure of Color::blend: u16 arithmetic on the channel a of self and
\* the channel b of other.
BlendChannelBy256(base_blend, alpha, a, b) ==
    AsU16(AsU16(a * base_blend) + AsU16(b * alpha)) \div 256

BlendChannel(base_blend, alpha, a, b) ==
    AsU16(AsU16(a * base_blend) + AsU16(b * alpha)) \div 255

blendKeepsSourceAlpha(self, other) ==
    LET base_blend == AsU8(255 - other.alpha)
    IN  rgba(AsU8(BlendChannel(base_blend, other.alpha, self.r, other.r)),
             AsU8(BlendChannel(base_blend, other.alpha, self.g, other.g)),
             AsU8(BlendChannel(base_blend, other.alpha, self.b, other.b)),
             other.alpha)

blend(self, other) ==
    LET base_blend == AsU8(255 - other.alpha)
    IN  rgba(AsU8(BlendChannel(base_blend, other.alpha, self.r, other.r)),
             AsU8(BlendChannel(base_blend, other.alpha, self.g, other.g)),
             AsU8(BlendChannel(base_blend, other.alpha, self.b, other.b)),
             self.alpha)

(***************************************************************************)
(* FrameBuffer: width*height*3 bytes, row-major, R G B per pixel.          *)
(***************************************************************************)
FrameBuffer_new(width, height) ==
    [pixels |-> [i \in 0..(width * height * 3 - 1) |-> 0],
     width |-> width, height |-> height]

FrameBuffer_get_point(self, x, y) ==
    IF x < 0 \/ x >= self.width THEN None
    ELSE IF y < 0 \/ x >= self.height THEN None
    ELSE LET offset == (y * self.width * 3) + (x * 3)
         IN  IF offset \notin DOMAIN self.pixels THEN Panic
             ELSE Some(rgb(self.pixels[offset],
                           self.pixels[offset + 1],
                           self.pixels[offset + 2]))

\* The blend closure of FrameBuffer::put_point: the stored byte is the
\* destination, the written color's channel the source.
PutBlendSwapped(old, base_blend, alpha, channel) ==
    AsU16(AsU16(channel * base_blend) + AsU16(old * alpha)) \div 255

PutBlend(old, base_blend, alpha, channel) ==
    AsU16(AsU16(old * base_blend) + AsU16(channel * alpha)) \div 255

\* The three bytes at offset.. replaced by r, g, b.
StoreRGB(pixels, offset, r, g, b) ==
    [pixels EXCEPT ![offset] = r, ![offset + 1] = g, ![offset + 2] = b]

FrameBuffer_put_point_NoAlphaTest(self, x, y, color) ==
    IF x < 0 \/ x >= self.width THEN self
    ELSE IF y < 0 \/ y >= self.height THEN self
    ELSE LET offset == (y * self.width * 3) + (x * 3)
         IN  [self EXCEPT !.pixels = StoreRGB(@, offset, color.r, color.g, color.b)]

FrameBuffer_put_point(self, x, y, color) ==
    IF x < 0 \/ x >= self.width THEN self
    ELSE IF y < 0 \/ y >= self.height THEN self
    ELSE IF color.alpha = 0 THEN self
    ELSE IF color.alpha = 255 THEN
        LET offset == (y * self.width * 3) + (x * 3)
        IN  [self EXCEPT !.pixels = StoreRGB(@, offset, color.r, color.g, color.b)]
    ELSE
        LET base_blend == AsU8(255 - color.alpha)
            offset == (y * self.width * 3) + (x * 3)
            r == AsU8(PutBlend(self.pixels[offset], base_blend, color.alpha, color.r))
            g == AsU8(PutBlend(self.pixels[offset + 1], base_blend, color.alpha, color.g))
            b == AsU8(PutBlend(self.pixels[offset + 2], base_blend, color.alpha, color.b))
        IN  [self EXCEPT !.pixels = StoreRGB(@, offset, r, g, b)]

\* The decimal digits of n, as ASCII bytes: what `{}` formats a u32 to.
RECURSIVE Decimal(_)
Decimal(n) ==
    IF n < 10 THEN << 48 + n >>
    ELSE Append(Decimal(n \div 10), 48 + (n % 10))

\* format!("P6\n{} {}\n255\n", width, height), with height before width.
header_HeightFirst(self) ==
    << 80, 54, 10 >> \o Decimal(self.height) \o << 32 >> \o Decimal(self.width)
    \o << 10, 50, 53, 53, 10 >>

\* format!("P6\n{} {}\n255\n", self.width, self.height).as_bytes()
header(self) ==
    << 80, 54, 10 >> \o Decimal(self.width) \o << 32 >> \o Decimal(self.height)
    \o << 10, 50, 53, 53, 10 >>

\* &self.pixels as a slice.
pixel_bytes(self) ==
    [i \in 1..((self.width * self.height) * 3) |-> self.pixels[i - 1]]

\* The two slices FrameBuffer::write hands to write_all, in order.
write_parts(self) == << header(self), pixel_bytes(self) >>

\* One iteration of the loop of write_all on the slice buffer at offset, the
\* stream answering the write with reply, where a size
\* of zero is not told from any other size.
write_all_iter_RetriesZero(buffer, offset, reply) ==
    IF reply.tag = "Err"
    THEN [offset |-> offset, chunk |-> <<>>, result |-> reply]
    ELSE [offset |-> offset + reply.val,
          chunk |-> SubSeq(buffer, offset + 1, offset + reply.val),
          result |-> Pending]

\* One iteration of the loop of write_all, which goes by one byte whatever
\* size the stream answers.
write_all_iter_ByOne(buffer, offset, reply) ==
    IF reply.tag = "Err"
    THEN [offset |-> offset, chunk |-> <<>>, result |-> reply]
    ELSE IF reply.val = 0
    THEN [offset |-> offset, chunk |-> <<>>, result |-> Err("Interrupted")]
    ELSE [offset |-> offset + 1,
          chunk |-> SubSeq(buffer, offset + 1, offset + reply.val),
          result |-> Pending]

\* One iteration of the loop of write_all on the slice buffer at offset, the
\* stream answering the write of buffer[offset..] with reply: the offset
\* after it, the bytes the stream took, and Err(e) when it returns early.
write_all_iter(buffer, offset, reply) ==
    IF reply.tag = "Err"
    THEN [offset |-> offset, chunk |-> <<>>, result |-> reply]
    ELSE IF reply.val = 0
    THEN [offset |-> offset, chunk |-> <<>>, result |-> Err("Interrupted")]
    ELSE [offset |-> offset + reply.val,
          chunk |-> SubSeq(buffer, offset + 1, offset + reply.val),
          result |-> Pending]

(***************************************************************************)
(* StencilBuffer: width*height bytes, row-major.                           *)
(***************************************************************************)
StencilBuffer_new(width, height) ==
    [pixels |-> [i \in 0..(width * height - 1) |-> 0],
     width |-> width, height |-> height]

StencilBuffer_get_point(self, x, y) ==
    IF x < 0 \/ x >= self.width THEN None
    ELSE IF y < 0 \/ x >= self.height THEN None
    ELSE LET offset == (y * self.width) + x
         IN  IF offset \notin DOMAIN self.pixels THEN Panic
             ELSE Some(self.pixels[offset])

\* The outcome of StencilBuffer::put_point: Unit, or Panic when the index is
\* past the end of the vector.
StencilBuffer_put_point_ret(self, x, y) ==
    IF x < 0 \/ x >= self.width THEN Unit
    ELSE IF y < 0 \/ x >= self.height THEN Unit
    ELSE LET offset == (y * self.width) + x
         IN  IF offset \notin DOMAIN self.pixels THEN Panic ELSE Unit

StencilBuffer_put_point(self, x, y, color) ==
    IF x < 0 \/ x >= self.width THEN self
    ELSE IF y < 0 \/ x >= self.height THEN self
    ELSE LET offset == (y * self.width) + x
         IN  IF offset \notin DOMAIN self.pixels THEN self
             ELSE [self EXCEPT !.pixels[offset] = color]

(***************************************************************************)
(* Canvas<Color, FrameBuffer>                                              *)
(***************************************************************************)
Canvas_new(buffer, fill, stroke) ==
    [buffer |-> buffer, fill |-> fill, stroke |-> stroke]

Canvas_get_point(self, x, y) == FrameBuffer_get_point(self.buffer, x, y)

Canvas_put_point(self, x, y, color) ==
    [self EXCEPT !.buffer = FrameBuffer_put_point(@, x, y, color)]

set_fill(self, fill) == [self EXCEPT !.fill = fill]

set_stroke(self, stroke) == [self EXCEPT !.stroke = stroke]

\* fill_point, writing the stroke.
fill_point_WithStroke(self, x, y) ==
    [self EXCEPT !.buffer = FrameBuffer_put_point(@, x, y, self.stroke)]

fill_point(self, x, y) ==
    [self EXCEPT !.buffer = FrameBuffer_put_point(@, x, y, self.fill)]

stroke_point(self, x, y) ==
    [self EXCEPT !.buffer = FrameBuffer_put_point(@, x, y, self.stroke)]

\* The only element of a one-element set.
Only(S) == CHOOSE v \in S : TRUE

\* fill_point at the points pts[lo], ..., pts[hi], in this order: the first
\* half of them, then, on the canvas c these leave, the second half.
RECURSIVE fill_points_from(_, _, _, _)
fill_points_from(self, pts, lo, hi) ==
    IF lo > hi THEN self
    ELSE IF lo = hi THEN fill_point(self, pts[lo][1], pts[lo][2])
    ELSE LET mid == (lo + hi) \div 2
         IN  Only({fill_points_from(c, pts, mid + 1, hi) :
                      c \in {fill_points_from(self, pts, lo, mid)}})

fill_points(self, pts) == fill_points_from(self, pts, 1, Len(pts))

\* stroke_point at the points pts[lo], ..., pts[hi], in this order.
RECURSIVE stroke_points_from(_, _, _, _)
stroke_points_from(self, pts, lo, hi) ==
    IF lo > hi THEN self
    ELSE IF lo = hi THEN stroke_point(self, pts[lo][1], pts[lo][2])
    ELSE LET mid == (lo + hi) \div 2
         IN  Only({stroke_points_from(c, pts, mid + 1, hi) :
                      c \in {stroke_points_from(self, pts, lo, mid)}})

stroke_points(self, pts) == stroke_points_from(self, pts, 1, Len(pts))

\* The points of `for py in ylo..yhi { for px in xlo..xhi { (px, py) } }`.
Grid(xlo, xhi, ylo, yhi) ==
    IF xhi <= xlo \/ yhi <= ylo THEN <<>>
    ELSE [i \in 1..((xhi - xlo) * (yhi - ylo)) |->
            <<xlo + ((i - 1) % (xhi - xlo)), ylo + ((i - 1) \div (xhi - xlo))>>]

\* The points Canvas::fill visits.
fill_calls(self) == Grid(0, self.buffer.width, 0, self.buffer.height)

fill(self) == fill_points(self, fill_calls(self))

\* The points Canvas::fill_rect hands to fill_point.
fill_rect_calls_Inclusive(x, y, width, height) ==
    Grid(x, x + width + 1, y, y + height + 1)

fill_rect_calls(x, y, width, height) == Grid(x, x + width, y, y + height)

fill_rect(self, x, y, width, height) ==
    fill_points(self, fill_rect_calls(x, y, width, height))

\* The points Canvas::stroke_rect hands to stroke_point, rows py.. onward.
RECURSIVE stroke_rect_rows(_, _, _, _, _)
stroke_rect_rows(py, x, y, width, height) ==
    IF py >= y + height THEN <<>>
    ELSE (IF py = y \/ y = (y + height) - 1
          THEN [i \in 1..(IF width > 0 THEN width ELSE 0) |-> <<py, x + i - 1>>]
          ELSE <<  <<py, x>>, <<py, x + width - 1>>  >>)
         \o stroke_rect_rows(py + 1, x, y, width, height)

stroke_rect_calls(x, y, width, height) == stroke_rect_rows(y, x, y, width, height)

stroke_rect(self, x, y, width, height) ==
    stroke_points(self, stroke_rect_calls(x, y, width, height))

Abs(n) == IF n < 0 THEN -n ELSE n

Signum(n) == IF n < 0 THEN -1 ELSE IF n > 0 THEN 1 ELSE 0

\* The loop of stroke_line and fill_line from (px, py) with the given error:
\* the points it plots, in order.
RECURSIVE line_loop(_, _, _, _, _, _, _, _, _)
line_loop(px, py, error, x2, y2, deltax, deltay, stepx, stepy) ==
    LET next_error == 2 * error
        stepsX == next_error >= deltay
        stepsY == next_error <= deltax
    IN  IF stepsX /\ px = x2 THEN << <<px, py>> >>
        ELSE LET error1 == IF stepsX THEN error + deltay ELSE error
                 px1 == IF stepsX THEN px + stepx ELSE px
             IN  IF stepsY /\ py = y2 THEN << <<px, py>> >>
                 ELSE LET error2 == IF stepsY THEN error1 + deltax ELSE error1
                          py1 == IF stepsY THEN py + stepy ELSE py
                      IN  << <<px, py>> >> \o
                          line_loop(px1, py1, error2, x2, y2, deltax, deltay, stepx, stepy)

\* The local variables of the general case of stroke_line, fill_line and
\* gstroke_line as the loop starts.
line_locals(x, y, x2, y2) ==
    [deltax |-> Abs(x2 - x), stepx |-> Signum(x2 - x),
     deltay |-> -Abs(y2 - y), stepy |-> Signum(y2 - y),
     error |-> Abs(x2 - x) + (-Abs(y2 - y)),
     px |-> x, py |-> y]

\* One iteration of the loop, which leaves as soon as px is x2.
line_iter_StopsAtX2(l, x2, y2) ==
    [locals |-> [l EXCEPT !.px = IF l.px = x2 THEN l.px ELSE l.px + l.stepx,
                          !.py = IF l.py = y2 THEN l.py ELSE l.py + l.stepy],
     pt |-> <<l.px, l.py>>,
     break |-> l.px = x2]

\* One iteration of the loop after the point (px, py) is plotted: the local
\* variables it leaves, the point, and whether it ends in a break.
line_iter(l, x2, y2) ==
    LET next_error == 2 * l.error
        stepsX == next_error >= l.deltay
        stepsY == next_error <= l.deltax
        l1 == IF stepsX /\ l.px # x2
              THEN [l EXCEPT !.error = l.error + l.deltay, !.px = l.px + l.stepx]
              ELSE l
        l2 == IF stepsY /\ l.py # y2
              THEN [l1 EXCEPT !.error = l1.error + l1.deltax, !.py = l1.py + l1.stepy]
              ELSE l1
    IN  IF stepsX /\ l.px = x2 THEN [locals |-> l, pt |-> <<l.px, l.py>>, break |-> TRUE]
        ELSE IF stepsY /\ l.py = y2
        THEN [locals |-> l1, pt |-> <<l.px, l.py>>, break |-> TRUE]
        ELSE [locals |-> l2, pt |-> <<l.px, l.py>>, break |-> FALSE]

\* The points Canvas::stroke_line hands to stroke_point.
stroke_line_calls(x, y, x2, y2) ==
    IF x = x2 THEN [i \in 1..(y2 - y) |-> <<x, y + i - 1>>]
    ELSE IF y = y2 THEN [i \in 1..(x2 - x) |-> <<x + i - 1, y>>]
    ELSE LET deltax == Abs(x2 - x)
             stepx == Signum(x2 - x)
             deltay == -Abs(y2 - y)
             stepy == Signum(y2 - y)
         IN  line_loop(x, y, deltax + deltay, x2, y2, deltax, deltay, stepx, stepy)

stroke_line(self, x, y, x2, y2) ==
    stroke_points(self, stroke_line_calls(x, y, x2, y2))

\* The points Canvas::fill_line hands to fill_point.
fill_line_calls(x, y, x2, y2) ==
    IF x = x2 THEN [i \in 1..(y2 - y) |-> <<x, y + i - 1>>]
    ELSE IF y = y2 THEN [i \in 1..(x2 - x) |-> <<x + i - 1, y>>]
    ELSE LET deltax == Abs(x2 - x)
             stepx == Signum(x2 - x)
             deltay == -Abs(y2 - y)
             stepy == Signum(y2 - y)
         IN  line_loop(x, y, deltax + deltay, x2, y2, deltax, deltay, stepx, stepy)

fill_line(self, x, y, x2, y2) ==
    fill_points(self, fill_line_calls(x, y, x2, y2))

\* The combinators Canvas::mask is called with: the closure of the infocus
\* demo, and one that stamps the mask byte into every color it is given.
Combinators == {"infocus", "stamp"}

Apply(func, color, m) ==
    IF func = "infocus"
    THEN CASE m = 0 -> black
           [] m = 1 -> Color_mask(color, TRUE, FALSE, FALSE)
           [] m = 2 -> Color_mask(color, FALSE, TRUE, FALSE)
           [] m = 3 -> Color_mask(color, FALSE, FALSE, TRUE)
           [] OTHER -> color
    ELSE rgb(m, color.g, 77)

\* The two tests Canvas::mask starts with, the test of the heights left out.
mask_dimensions_match_WidthOnly(self, other) ==
    self.buffer.width = other.buffer.width

\* The two tests Canvas::mask starts with: both fail to return early.
mask_dimensions_match(self, other) ==
    /\ ~(self.buffer.width # other.buffer.width)
    /\ ~(self.buffer.height # other.buffer.height)

\* The loops of Canvas::mask from the i-th coordinate of pts on, other being
\* a Canvas over a StencilBuffer: the canvas they leave, the coordinates at
\* which func was applied and its result put, and the outcome.
RECURSIVE mask_loop(_, _, _, _, _, _)
mask_loop(self, other, func, pts, i, calls) ==
    IF i > Len(pts) THEN [canvas |-> self, calls |-> calls, ret |-> Unit]
    ELSE LET px == pts[i][1]
             py == pts[i][2]
             src == FrameBuffer_get_point(self.buffer, px, py)
             m == StencilBuffer_get_point(other.buffer, px, py)
         IN  IF src = Panic THEN [canvas |-> self, calls |-> calls, ret |-> Panic]
             ELSE IF src = None THEN mask_loop(self, other, func, pts, i + 1, calls)
             ELSE IF m = Panic THEN [canvas |-> self, calls |-> calls, ret |-> Panic]
             ELSE IF m = None THEN mask_loop(self, other, func, pts, i + 1, calls)
             ELSE mask_loop(Canvas_put_point(self, px, py, Apply(func, src.val, m.val)),
                            other, func, pts, i + 1, Append(calls, <<px, py>>))

\* Canvas::mask
mask(self, other, func) ==
    IF ~mask_dimensions_match(self, other)
    THEN [canvas |-> self, calls |-> <<>>, ret |-> Unit]
    ELSE mask_loop(self, other, func,
                   Grid(0, self.buffer.width, 0, self.buffer.height), 1, <<>>)

\* The local variables of stroke_circle and fill_circle as the loop starts.
circle_locals(r) == [error |-> (-2 * r) + 2, relx |-> -r, rely |-> 0]

\* `while relx <= 0`, with the loop condition made strict.
circle_running_Strict(l) == l.relx < 0

\* `while relx <= 0`
circle_running(l) == l.relx <= 0

\* `if next_error >= 2 * relx + 1 { relx += 1; error += 2 * relx + 1; }`
circle_step_x(l, next_error) ==
    IF next_error >= (2 * l.relx) + 1
    THEN [l EXCEPT !.relx = l.relx + 1, !.error = l.error + (2 * (l.relx + 1)) + 1]
    ELSE l

\* `rely += 2; error += 2 * rely + 1;`
circle_step_y_ByTwo(l) ==
    [l EXCEPT !.rely = l.rely + 2, !.error = l.error + (2 * (l.rely + 2)) + 1]

\* `rely += 1; error += 2 * rely + 1;`
circle_step_y(l) ==
    [l EXCEPT !.rely = l.rely + 1, !.error = l.error + (2 * (l.rely + 1)) + 1]

\* The four points one iteration of stroke_circle hands to stroke_point.
stroke_circle_plots(x, y, l) ==
    << <<x + l.relx, y + l.rely>>, <<x - l.relx, y + l.rely>>,
       <<x + l.relx, y - l.rely>>, <<x - l.relx, y - l.rely>> >>

\* One iteration of the loop of stroke_circle: the points it plots and the
\* local variables it leaves.
stroke_circle_iter(x, y, l) ==
    LET next_error == 2 * l.error
        l1 == circle_step_x(l, next_error)
        l2 == IF next_error <= (2 * l.rely) + 1 THEN circle_step_y(l1) ELSE l1
    IN  [locals |-> l2, pts |-> stroke_circle_plots(x, y, l)]

\* The points the loop of stroke_circle plots from the local variables l on.
RECURSIVE stroke_circle_loop(_, _, _)
stroke_circle_loop(x, y, l) ==
    IF circle_running(l)
    THEN LET it == stroke_circle_iter(x, y, l)
         IN  it.pts \o stroke_circle_loop(x, y, it.locals)
    ELSE <<>>

\* The points Canvas::stroke_circle hands to stroke_point.
stroke_circle_calls(x, y, r) == stroke_circle_loop(x, y, circle_locals(r))

stroke_circle(self, x, y, r) == stroke_points(self, stroke_circle_calls(x, y, r))

\* One iteration of the loop of fill_circle: relx advances first, and the two
\* fill_line calls are made with the relx it has then.
fill_circle_iter(x, y, l) ==
    LET next_error == 2 * l.error
        l1 == circle_step_x(l, next_error)
    IN  IF next_error <= (2 * l.rely) + 1
        THEN [locals |-> circle_step_y(l1),
              pts |-> fill_line_calls(x + l1.relx, y + l1.rely, x - l1.relx, y + l1.rely)
                      \o fill_line_calls(x + l1.relx, y - l1.rely, x - l1.relx, y - l1.rely),
              lines |-> << l1 >>]
        ELSE [locals |-> l1, pts |-> <<>>, lines |-> <<>>]

\* The points the loop of fill_circle plots from the local variables l on.
RECURSIVE fill_circle_loop(_, _, _)
fill_circle_loop(x, y, l) ==
    IF circle_running(l)
    THEN LET it == fill_circle_iter(x, y, l)
         IN  it.pts \o fill_circle_loop(x, y, it.locals)
    ELSE <<>>

\* The points Canvas::fill_circle hands, through fill_line, to fill_point.
fill_circle_calls(x, y, r) == fill_circle_loop(x, y, circle_locals(r))

fill_circle(self, x, y, r) == fill_points(self, fill_circle_calls(x, y, r))

(***************************************************************************)
(* The gradient variants.  A gradient is a closure of the caller, which    *)
(* the function calls with floating-point arguments.  The arguments are    *)
(* kept as the integers they are computed from: a ratio `n as f64 / d as   *)
(* f64` as [num |-> n, den |-> d], an angle `(y as f64).atan2(x as f64)`   *)
(* as [y |-> y, x |-> x], a distance `(sq as f64).sqrt() / (r as f64)` as  *)
(* [sq |-> sq, r |-> r].  The closures compare their arguments with 0.5    *)
(* and 0.0, which these integers decide: atan2(y, x) is negative exactly   *)
(* when y < 0.                                                             *)
(***************************************************************************)
Ratio(n, d) == [num |-> n, den |-> d]

\* `q < 0.5` for the f64 q = num / den: a division by 0.0 gives an infinity
\* of the sign of num, or NaN.
BelowHalf(q) ==
    IF q.den > 0 THEN 2 * q.num < q.den
    ELSE IF q.den < 0 THEN 2 * q.num > q.den
    ELSE q.num < 0

\* `d < 0.5` for the f64 d = sqrt(sq) / r, with sq >= 0.
Inside(d) ==
    IF d.r > 0 THEN 4 * d.sq < d.r * d.r
    ELSE d.r < 0

\* The closures the gradient variants are called with:
\*   "constant"  |..| Color::rgb(1, 2, 3)
\*   "split"     for gfill_rect and gstroke_rect
\*                 |xr, yr| if xr < 0.5 { Color::rgb(10, 20, 30) }
\*                          else if yr < 0.5 { Color::rgb(40, 50, 60) }
\*                          else { Color::rgb(70, 80, 90) }
\*               for gstroke_circle
\*                 |a| if a < 0.0 { Color::rgb(10, 20, 30) }
\*                     else { Color::rgb(40, 50, 60) }
\*               for gfill_circle
\*                 |a, d| if a < 0.0 { Color::rgb(10, 20, 30) }
\*                        else if d < 0.5 { Color::rgb(40, 50, 60) }
\*                        else { Color::rgb(70, 80, 90) }
Gradients == {"constant", "split"}

rect_gradient(g, xratio, yratio) ==
    IF g = "constant" THEN rgb(1, 2, 3)
    ELSE IF BelowHalf(xratio) THEN rgb(10, 20, 30)
    ELSE IF BelowHalf(yratio) THEN rgb(40, 50, 60)
    ELSE rgb(70, 80, 90)

angle_gradient(g, angle) ==
    IF g = "constant" THEN rgb(1, 2, 3)
    ELSE IF angle.y < 0 THEN rgb(10, 20, 30)
    ELSE rgb(40, 50, 60)

polar_gradient(g, angle, distance) ==
    IF g = "constant" THEN rgb(1, 2, 3)
    ELSE IF angle.y < 0 THEN rgb(10, 20, 30)
    ELSE IF Inside(distance) THEN rgb(40, 50, 60)
    ELSE rgb(70, 80, 90)

\* One `self.buffer.put_point(x, y, color)`.
Put(x, y, color) == [pt |-> <<x, y>>, color |-> color]

\* The puts puts[lo], ..., puts[hi] on the buffer of the canvas, in this
\* order.
RECURSIVE buffer_puts_from(_, _, _, _)
buffer_puts_from(self, puts, lo, hi) ==
    IF lo > hi THEN self
    ELSE IF lo = hi
    THEN Canvas_put_point(self, puts[lo].pt[1], puts[lo].pt[2], puts[lo].color)
    ELSE LET mid == (lo + hi) \div 2
         IN  Only({buffer_puts_from(c, puts, mid + 1, hi) :
                      c \in {buffer_puts_from(self, puts, lo, mid)}})

buffer_puts(self, puts) == buffer_puts_from(self, puts, 1, Len(puts))

\* The points of a sequence of puts.
PutPoints(puts) == [i \in DOMAIN puts |-> puts[i].pt]

\* The puts of Canvas::gfill_rect.
gfill_rect_puts(x, y, width, height, g) ==
    LET pts == Grid(x, x + width, y, y + height)
    IN  [i \in DOMAIN pts |->
            Put(pts[i][1], pts[i][2],
                rect_gradient(g, Ratio(pts[i][1] - x, width),
                                 Ratio(pts[i][2] - y, height)))]

gfill_rect(self, x, y, width, height, g) ==
    buffer_puts(self, gfill_rect_puts(x, y, width, height, g))

\* The puts of Canvas::gstroke_rect, rows py.. onward.
RECURSIVE gstroke_rect_rows(_, _, _, _, _, _)
gstroke_rect_rows(py, x, y, width, height, g) ==
    IF py >= y + height THEN <<>>
    ELSE LET yratio == Ratio(py - y, height)
         IN  (IF py = y \/ y = (y + height) - 1
              THEN [i \in 1..(IF width > 0 THEN width ELSE 0) |->
                       Put(py, x + i - 1,
                           rect_gradient(g, Ratio(i - 1, width), yratio))]
              ELSE << Put(py, x, rect_gradient(g, Ratio(0, 1), yratio)),
                      Put(py, x + width - 1, rect_gradient(g, Ratio(1, 1), yratio)) >>)
             \o gstroke_rect_rows(py + 1, x, y, width, height, g)

gstroke_rect(self, x, y, width, height, g) ==
    buffer_puts(self, gstroke_rect_rows(y, x, y, width, height, g))

\* The four puts of one iteration of gstroke_circle.
gstroke_circle_plots(x, y, l, g) ==
    << Put(x + l.relx, y + l.rely, angle_gradient(g, [y |-> y + l.rely, x |-> x + l.relx])),
       Put(x - l.relx, y + l.rely, angle_gradient(g, [y |-> y + l.rely, x |-> x - l.relx])),
       Put(x + l.relx, y - l.rely, angle_gradient(g, [y |-> y - l.rely, x |-> x + l.relx])),
       Put(x - l.relx, y - l.rely, angle_gradient(g, [y |-> y - l.rely, x |-> x - l.relx])) >>

\* The puts of the loop of gstroke_circle from the local variables l on.
RECURSIVE gstroke_circle_loop(_, _, _, _)
gstroke_circle_loop(x, y, l, g) ==
    IF circle_running(l)
    THEN LET next_error == 2 * l.error
             l1 == circle_step_x(l, next_error)
             l2 == IF next_error <= (2 * l.rely) + 1 THEN circle_step_y(l1) ELSE l1
         IN  gstroke_circle_plots(x, y, l, g) \o gstroke_circle_loop(x, y, l2, g)
    ELSE <<>>

gstroke_circle(self, x, y, r, g) ==
    buffer_puts(self, gstroke_circle_loop(x, y, circle_locals(r), g))

\* The puts of `for px in (x + relx)..(x - relx)` in gfill_circle: at each px
\* the row y - rely, then the row y + rely, both with the distance of the
\* first.
gfill_circle_span(x, y, r, l, g) ==
    LET py == y - l.rely
        py2 == y + l.rely
        lo == x + l.relx
        n == IF (x - l.relx) > lo THEN (x - l.relx) - lo ELSE 0
        distance(px) ==
            [sq |-> ((px - x) * (px - x)) + ((py - y) * (py - y)), r |-> r]
    IN  [i \in 1..(2 * n) |->
            LET px == lo + ((i - 1) \div 2)
            IN  IF i % 2 = 1
                THEN Put(px, py, polar_gradient(g, [y |-> py - y, x |-> px - x], distance(px)))
                ELSE Put(px, py2, polar_gradient(g, [y |-> py2 - y, x |-> px - x], distance(px)))]

\* The puts of the loop of gfill_circle from the local variables l on.
RECURSIVE gfill_circle_loop(_, _, _, _, _)
gfill_circle_loop(x, y, r, l, g) ==
    IF circle_running(l)
    THEN LET next_error == 2 * l.error
             l1 == circle_step_x(l, next_error)
         IN  IF next_error <= (2 * l.rely) + 1
             THEN gfill_circle_span(x, y, r, l1, g)
                  \o gfill_circle_loop(x, y, r, circle_step_y(l1), g)
             ELSE gfill_circle_loop(x, y, r, l1, g)
    ELSE <<>>

gfill_circle(self, x, y, r, g) ==
    buffer_puts(self, gfill_circle_loop(x, y, r, circle_locals(r), g))

(***************************************************************************)
(* Inputs.                                                                 *)
(***************************************************************************)
\* Colors the callers pass: opaque, translucent and transparent ones.
Palette ==
    {white, rgb(200, 100, 50), rgba(200, 200, 200, 128), rgba(40, 80, 120, 0)}

\* Colors put_point is called with: the palette, alphas next to 0 and 255, and
\* the gray destination of the blend law.
PutColors ==
    Palette \cup {rgba(255, 0, 90, 1), rgba(0, 255, 90, 254), rgb(100, 100, 100)}

\* Bytes written to the stencil buffer.
StencilValues == {0, 1, 255}

\* The receivers of Color::blend: every byte in the red channel and its
\* complement in the green one, transparent and opaque, and the gray
\* destination of the blend law.
BlendSelves ==
    {rgba(c, 255 - c, 100, a) : c \in Byte, a \in {0, 255}}
    \cup {rgba(100, 100, 100, 255)}

\* The arguments of Color::blend: every alpha over the extreme channels, and
\* the gray source of the blend law.
BlendOthers ==
    {rgba(255, 0, 200, a) : a \in Byte} \cup {rgba(1, 254, 77, a) : a \in Byte}
    \cup {rgba(200, 200, 200, 128)}

\* The dimensions buffers are built with: every W x H within the bounds.
Dims == (1..MaxW) \X (1..MaxH)

\* The 10 x 10 buffer of the fill_rect example.
ExampleDims == <<10, 10>>

\* The fill and stroke Canvas::new is called with.
InitPaints == {<<white, black>>, <<rgb(200, 100, 50), rgba(200, 200, 200, 128)>>}

\* The fill and stroke the canvas of the circle calls is built with: a stroke
\* and a fill that both show on the black of a new buffer.
CirclePaints == {<<rgb(200, 100, 50), white>>}

\* The bytes the mask buffer is written with: one for each arm of the infocus
\* combinator but the first, which a new buffer holds.
MaskValues == {1, 2, 3, 255}

\* The mask buffers Canvas::mask is given: a new W x H StencilBuffer after no,
\* one or two calls of put_point.
MaskStencils(w, h) ==
    LET new == StencilBuffer_new(w, h)
        cells == (0..(w - 1)) \X (0..(h - 1))
        once == {StencilBuffer_put_point(new, p[1], p[2], v) : p \in cells, v \in MaskValues}
    IN  {new} \cup once
        \cup {StencilBuffer_put_point(b, p[1], p[2], v) :
                  b \in once, p \in cells, v \in MaskValues}

\* The canvases Canvas::mask is called on: one over a new W x H FrameBuffer,
\* and one that fill() has colored.
MaskCanvases(w, h) ==
    {Canvas_new(FrameBuffer_new(w, h), white, black),
     fill(Canvas_new(FrameBuffer_new(w, h), rgb(200, 100, 50), black))}

\* The dimensions of the buffers that are written out: those of Dims, the
\* 4 x 4 buffer of the example, and a width of two digits.
WriteDims == Dims \cup {<<4, 4>>, <<12, 1>>}

\* The buffers that are written out: new ones, and ones a call of put_point
\* has colored.
WriteCanvases ==
    {Canvas_new(FrameBuffer_new(d[1], d[2]), white, black) : d \in WriteDims}
    \cup {Canvas_put_point(Canvas_new(FrameBuffer_new(d[1], d[2]), white, black),
                           x, y, c) :
             d \in Dims, x \in 0..(MaxW - 1), y \in 0..(MaxH - 1),
             c \in {rgb(200, 100, 50), rgba(200, 200, 200, 128)}}

\* What a stream answers a write of n bytes with: Ok(size) for a size of 0,
\* of 1..MaxChunk or of n, or an error.
WriteOk(size) == [tag |-> "Ok", val |-> size]

Replies(n) ==
    {WriteOk(k) : k \in {0, n} \cup {k \in 1..MaxChunk : k <= n}} \cup {Err("Other")}

\* The canvases the drawing calls start from: each buffer with each pair of
\* paints, and the example's buffer with white fill and black stroke.
InitCanvases ==
    {Canvas_new(FrameBuffer_new(d[1], d[2]), p[1], p[2]) : d \in Dims, p \in InitPaints}
    \cup {Canvas_new(FrameBuffer_new(ExampleDims[1], ExampleDims[2]), white, black)}

(***************************************************************************)
(* The bookkeeping every call shares.                                      *)
(***************************************************************************)
\* No call is in progress.
Idle == [op |-> "idle"]

\* No loop is running.
NoFrame == [fn |-> "none"]

\* Nothing has been written to the stream: it has accepted no byte, has
\* answered no write with a size of zero, has failed no write and has
\* accepted no write in part.
NoStream == [accepted |-> <<>>, zeros |-> <<>>, failed |-> FALSE, partial |-> FALSE]

\* A call can be made: the caller holds no unreturned call and the bound is
\* not reached.
CanCall == call = Idle /\ nops < MaxOps

\* The call c handed the points pts to put_point and returned r.
Called(c, pts, r) ==
    /\ call' = c
    /\ plotted' = pts
    /\ ret' = r
    /\ nops' = nops + 1

\* The last call returns to its caller, which goes on from the state the call
\* left; a call that panicked never returns.
Return ==
    /\ call # Idle
    /\ frame = NoFrame
    /\ nops < MaxOps
    /\ ret # Panic
    /\ call' = Idle
    /\ plotted' = <<>>
    /\ ret' = Unit
    /\ prev' = canvas
    /\ stprev' = stencil
    /\ UNCHANGED <<canvas, stencil, nops, blendVars, latest, loopVars>>

NoCallYet ==
    /\ call = Idle
    /\ plotted = <<>>
    /\ ret = Unit
    /\ nops = 0

\* The paints a canvas was constructed with.
Constructed(c) == [fill |-> c.fill, stroke |-> c.stroke]

CanvasIdle ==
    /\ canvas = Canvas_new(FrameBuffer_new(1, 1), white, black)
    /\ prev = canvas
    /\ latest = Constructed(canvas)

StencilIdle ==
    /\ stencil = StencilBuffer_new(1, 1)
    /\ stprev = stencil

BlendIdle ==
    /\ bself = black
    /\ bother = black
    /\ bout = None

LoopIdle ==
    /\ frame = NoFrame
    /\ stream = NoStream

(***************************************************************************)
(* Spec: get_point and put_point on a Canvas over a FrameBuffer.           *)
(***************************************************************************)
Init ==
    /\ \E d \in Dims : canvas = Canvas_new(FrameBuffer_new(d[1], d[2]), white, black)
    /\ prev = canvas
    /\ latest = Constructed(canvas)
    /\ NoCallYet
    /\ StencilIdle
    /\ BlendIdle
    /\ LoopIdle

GetPoint ==
    \E x \in XCoords, y \in YCoords :
        /\ CanCall
        /\ canvas' = canvas
        /\ prev' = canvas
        /\ Called([op |-> "get_point", x |-> x, y |-> y], <<>>,
                  Canvas_get_point(canvas, x, y))
        /\ UNCHANGED <<stencilVars, blendVars, latest, loopVars>>

PutPoint ==
    \E x \in XCoords, y \in YCoords, color \in PutColors :
        /\ CanCall
        /\ canvas' = Canvas_put_point(canvas, x, y, color)
        /\ prev' = canvas
        /\ Called([op |-> "put_point", x |-> x, y |-> y, color |-> color],
                  << <<x, y>> >>, Unit)
        /\ UNCHANGED <<stencilVars, blendVars, latest, loopVars>>

Next ==
    \/ GetPoint
    \/ PutPoint
    \/ Return

Spec == Init /\ [][Next]_vars

(***************************************************************************)
(* SpecStencil: get_point and put_point on a StencilBuffer.                *)
(***************************************************************************)
InitStencil ==
    /\ \E d \in Dims : stencil = StencilBuffer_new(d[1], d[2])
    /\ stprev = stencil
    /\ NoCallYet
    /\ CanvasIdle
    /\ BlendIdle
    /\ LoopIdle

StencilGetPoint ==
    \E x \in XCoords, y \in YCoords :
        /\ CanCall
        /\ stencil' = stencil
        /\ stprev' = stencil
        /\ Called([op |-> "stencil.get_point", x |-> x, y |-> y], <<>>,
                  StencilBuffer_get_point(stencil, x, y))
        /\ UNCHANGED <<canvasVars, blendVars, latest, loopVars>>

StencilPutPoint ==
    \E x \in XCoords, y \in YCoords, color \in StencilValues :
        /\ CanCall
        /\ stencil' = StencilBuffer_put_point(stencil, x, y, color)
        /\ stprev' = stencil
        /\ Called([op |-> "stencil.put_point", x |-> x, y |-> y, color |-> color],
                  <<>>, StencilBuffer_put_point_ret(stencil, x, y))
        /\ UNCHANGED <<canvasVars, blendVars, latest, loopVars>>

NextStencil ==
    \/ StencilGetPoint
    \/ StencilPutPoint
    \/ Return

SpecStencil == InitStencil /\ [][NextStencil]_vars

(***************************************************************************)
(* SpecDraw: the painter state and the drawing calls of a Canvas over a    *)
(* FrameBuffer.                                                            *)
(***************************************************************************)
InitDraw ==
    /\ canvas \in InitCanvases
    /\ prev = canvas
    /\ latest = Constructed(canvas)
    /\ NoCallYet
    /\ StencilIdle
    /\ BlendIdle
    /\ LoopIdle

SetFill ==
    \E color \in Palette :
        /\ CanCall
        /\ canvas' = set_fill(canvas, color)
        /\ prev' = canvas
        /\ Called([op |-> "set_fill", color |-> color], <<>>, Unit)
        /\ latest' = [latest EXCEPT !.fill = color]
        /\ UNCHANGED <<stencilVars, blendVars, loopVars>>

SetStroke ==
    \E color \in Palette :
        /\ CanCall
        /\ canvas' = set_stroke(canvas, color)
        /\ prev' = canvas
        /\ Called([op |-> "set_stroke", color |-> color], <<>>, Unit)
        /\ latest' = [latest EXCEPT !.stroke = color]
        /\ UNCHANGED <<stencilVars, blendVars, loopVars>>

FillPoint ==
    \E x \in Coords, y \in Coords :
        /\ CanCall
        /\ canvas' = fill_point(canvas, x, y)
        /\ prev' = canvas
        /\ Called([op |-> "fill_point", x |-> x, y |-> y], << <<x, y>> >>, Unit)
        /\ UNCHANGED <<stencilVars, blendVars, latest, loopVars>>

StrokePoint ==
    \E x \in Coords, y \in Coords :
        /\ CanCall
        /\ canvas' = stroke_point(canvas, x, y)
        /\ prev' = canvas
        /\ Called([op |-> "stroke_point", x |-> x, y |-> y], << <<x, y>> >>, Unit)
        /\ UNCHANGED <<stencilVars, blendVars, latest, loopVars>>

Fill ==
    /\ CanCall
    /\ canvas' = fill(canvas)
    /\ prev' = canvas
    /\ Called([op |-> "fill"], fill_calls(canvas), Unit)
    /\ UNCHANGED <<stencilVars, blendVars, latest, loopVars>>

FillRect ==
    \E x \in Coords, y \in Coords, width \in Extents, height \in Extents :
        /\ CanCall
        /\ canvas' = fill_rect(canvas, x, y, width, height)
        /\ prev' = canvas
        /\ Called([op |-> "fill_rect", x |-> x, y |-> y,
                   width |-> width, height |-> height],
                  fill_rect_calls(x, y, width, height), Unit)
        /\ UNCHANGED <<stencilVars, blendVars, latest, loopVars>>

StrokeRect ==
    \E x \in Coords, y \in Coords, width \in Extents, height \in Extents :
        /\ CanCall
        /\ canvas' = stroke_rect(canvas, x, y, width, height)
        /\ prev' = canvas
        /\ Called([op |-> "stroke_rect", x |-> x, y |-> y,
                   width |-> width, height |-> height],
                  stroke_rect_calls(x, y, width, height), Unit)
        /\ UNCHANGED <<stencilVars, blendVars, latest, loopVars>>

StrokeLine ==
    \E x \in Coords, y \in Coords, x2 \in Coords, y2 \in Coords :
        /\ CanCall
        /\ canvas' = stroke_line(canvas, x, y, x2, y2)
        /\ prev' = canvas
        /\ Called([op |-> "stroke_line", x |-> x, y |-> y, x2 |-> x2, y2 |-> y2],
                  stroke_line_calls(x, y, x2, y2), Unit)
        /\ UNCHANGED <<stencilVars, blendVars, latest, loopVars>>

FillLine ==
    \E x \in Coords, y \in Coords, x2 \in Coords, y2 \in Coords :
        /\ CanCall
        /\ canvas' = fill_line(canvas, x, y, x2, y2)
        /\ prev' = canvas
        /\ Called([op |-> "fill_line", x |-> x, y |-> y, x2 |-> x2, y2 |-> y2],
                  fill_line_calls(x, y, x2, y2), Unit)
        /\ UNCHANGED <<stencilVars, blendVars, latest, loopVars>>

StrokeCircle ==
    \E x \in Coords, y \in Coords, r \in Radii :
        /\ CanCall
        /\ canvas' = stroke_circle(canvas, x, y, r)
        /\ prev' = canvas
        /\ Called([op |-> "stroke_circle", x |-> x, y |-> y, r |-> r],
                  stroke_circle_calls(x, y, r), Unit)
        /\ UNCHANGED <<stencilVars, blendVars, latest, loopVars>>

FillCircle ==
    \E x \in Coords, y \in Coords, r \in Radii :
        /\ CanCall
        /\ canvas' = fill_circle(canvas, x, y, r)
        /\ prev' = canvas
        /\ Called([op |-> "fill_circle", x |-> x, y |-> y, r |-> r],
                  fill_circle_calls(x, y, r), Unit)
        /\ UNCHANGED <<stencilVars, blendVars, latest, loopVars>>

NextDraw ==
    \/ SetFill
    \/ SetStroke
    \/ FillPoint
    \/ StrokePoint
    \/ Fill
    \/ FillRect
    \/ StrokeRect
    \/ StrokeLine
    \/ FillLine
    \/ StrokeCircle
    \/ FillCircle
    \/ Return

SpecDraw == InitDraw /\ [][NextDraw]_vars

(***************************************************************************)
(* SpecGradient: the gradient variants of the drawing calls, which put the *)
(* colors a closure of the caller returns and read neither paint.          *)
(***************************************************************************)
InitGradient ==
    /\ \E d \in Dims, p \in InitPaints :
          canvas = Canvas_new(FrameBuffer_new(d[1], d[2]), p[1], p[2])
    /\ prev = canvas
    /\ latest = Constructed(canvas)
    /\ NoCallYet
    /\ StencilIdle
    /\ BlendIdle
    /\ LoopIdle

GFillRect ==
    \E x \in Coords, y \in Coords, width \in Extents, height \in Extents,
       g \in Gradients :
        /\ CanCall
        /\ canvas' = gfill_rect(canvas, x, y, width, height, g)
        /\ prev' = canvas
        /\ Called([op |-> "gfill_rect", x |-> x, y |-> y,
                   width |-> width, height |-> height, gradient |-> g],
                  PutPoints(gfill_rect_puts(x, y, width, height, g)), Unit)
        /\ UNCHANGED <<stencilVars, blendVars, latest, loopVars>>

GStrokeRect ==
    \E x \in Coords, y \in Coords, width \in Extents, height \in Extents,
       g \in Gradients :
        /\ CanCall
        /\ canvas' = gstroke_rect(canvas, x, y, width, height, g)
        /\ prev' = canvas
        /\ Called([op |-> "gstroke_rect", x |-> x, y |-> y,
                   width |-> width, height |-> height, gradient |-> g],
                  PutPoints(gstroke_rect_rows(y, x, y, width, height, g)), Unit)
        /\ UNCHANGED <<stencilVars, blendVars, latest, loopVars>>

GStrokeCircle ==
    \E x \in Coords, y \in Coords, r \in Radii, g \in Gradients :
        /\ CanCall
        /\ canvas' = gstroke_circle(canvas, x, y, r, g)
        /\ prev' = canvas
        /\ Called([op |-> "gstroke_circle", x |-> x, y |-> y, r |-> r, gradient |-> g],
                  PutPoints(gstroke_circle_loop(x, y, circle_locals(r), g)), Unit)
        /\ UNCHANGED <<stencilVars, blendVars, latest, loopVars>>

GFillCircle ==
    \E x \in Coords, y \in Coords, r \in Radii, g \in Gradients :
        /\ CanCall
        /\ canvas' = gfill_circle(canvas, x, y, r, g)
        /\ prev' = canvas
        /\ Called([op |-> "gfill_circle", x |-> x, y |-> y, r |-> r, gradient |-> g],
                  PutPoints(gfill_circle_loop(x, y, r, circle_locals(r), g)), Unit)
        /\ UNCHANGED <<stencilVars, blendVars, latest, loopVars>>

NextGradient ==
    \/ GFillRect
    \/ GStrokeRect
    \/ GStrokeCircle
    \/ GFillCircle
    \/ Return

SpecGradient == InitGradient /\ [][NextGradient]_vars

(***************************************************************************)
(* SpecCircle: one call of stroke_circle or fill_circle, one iteration of  *)
(* the loop at a time.  frame holds the arguments and the local variables  *)
(* of the call while its loop is running.                                  *)
(***************************************************************************)
InitCircle ==
    /\ \E d \in Dims, p \in CirclePaints :
          canvas = Canvas_new(FrameBuffer_new(d[1], d[2]), p[1], p[2])
    /\ prev = canvas
    /\ latest = Constructed(canvas)
    /\ NoCallYet
    /\ StencilIdle
    /\ BlendIdle
    /\ LoopIdle

\* The local variables of the running loop.
Locals == [error |-> frame.error, relx |-> frame.relx, rely |-> frame.rely]

\* stroke_circle or fill_circle is entered: the local variables are set.
CircleEnter ==
    \E fn \in {"stroke_circle", "fill_circle"}, x \in Coords, y \in Coords, r \in Radii :
        /\ CanCall
        /\ frame' = [fn |-> fn, x |-> x, y |-> y, r |-> r,
                     error |-> circle_locals(r).error,
                     relx |-> circle_locals(r).relx,
                     rely |-> circle_locals(r).rely,
                     iterations |-> 0, lines |-> <<>>]
        /\ prev' = canvas
        /\ Called([op |-> fn, x |-> x, y |-> y, r |-> r], <<>>, Unit)
        /\ UNCHANGED <<canvas, stencilVars, blendVars, latest, stream>>

\* One iteration of the loop of stroke_circle.
StrokeCircleStep ==
    /\ frame.fn = "stroke_circle"
    /\ circle_running(Locals)
    /\ \E it \in {stroke_circle_iter(frame.x, frame.y, Locals)} :
           /\ frame' = [frame EXCEPT !.error = it.locals.error,
                                     !.relx = it.locals.relx,
                                     !.rely = it.locals.rely,
                                     !.iterations = @ + 1,
                                     !.lines = Append(@, Locals)]
           /\ canvas' = stroke_points(canvas, it.pts)
           /\ plotted' = plotted \o it.pts
    /\ UNCHANGED <<prev, call, ret, nops, stencilVars, blendVars, latest, stream>>

\* One iteration of the loop of fill_circle.
FillCircleStep ==
    /\ frame.fn = "fill_circle"
    /\ circle_running(Locals)
    /\ \E it \in {fill_circle_iter(frame.x, frame.y, Locals)} :
           /\ frame' = [frame EXCEPT !.error = it.locals.error,
                                     !.relx = it.locals.relx,
                                     !.rely = it.locals.rely,
                                     !.iterations = @ + 1,
                                     !.lines = @ \o it.lines]
           /\ canvas' = fill_points(canvas, it.pts)
           /\ plotted' = plotted \o it.pts
    /\ UNCHANGED <<prev, call, ret, nops, stencilVars, blendVars, latest, stream>>

\* The loop condition fails: the call is over.
CircleExit ==
    /\ frame.fn \in {"stroke_circle", "fill_circle"}
    /\ ~circle_running(Locals)
    /\ frame' = NoFrame
    /\ UNCHANGED <<canvasVars, call, ret, nops, stencilVars, blendVars, latest, stream>>

NextCircle ==
    \/ CircleEnter
    \/ StrokeCircleStep
    \/ FillCircleStep
    \/ CircleExit

SpecCircle == InitCircle /\ [][NextCircle]_vars

\* A loop that can make its next iteration, or leave, does.
SpecCircleFair ==
    SpecCircle /\ WF_vars(StrokeCircleStep \/ FillCircleStep \/ CircleExit)

(***************************************************************************)
(* SpecLine: one call of stroke_line, fill_line or gstroke_line, one       *)
(* iteration of the loop at a time.  frame holds the arguments and the     *)
(* local variables of the call while its loop is running.  The gradient    *)
(* gstroke_line is given is a closure that returns one color.              *)
(***************************************************************************)
LineFns == {"stroke_line", "fill_line", "gstroke_line"}

GradientColor == rgb(1, 2, 3)

\* The put of one point by the function fn.
line_put(fn, self, pt) ==
    IF fn = "stroke_line" THEN stroke_point(self, pt[1], pt[2])
    ELSE IF fn = "fill_line" THEN fill_point(self, pt[1], pt[2])
    ELSE Canvas_put_point(self, pt[1], pt[2], GradientColor)

\* The puts of the function fn at the points pts[i], ..., in order.
RECURSIVE line_puts(_, _, _, _)
line_puts(fn, self, pts, i) ==
    IF i > Len(pts) THEN self
    ELSE Only({line_puts(fn, c, pts, i + 1) : c \in {line_put(fn, self, pts[i])}})

InitLine ==
    /\ canvas = Canvas_new(FrameBuffer_new(MaxW, MaxH), rgb(200, 100, 50), white)
    /\ prev = canvas
    /\ latest = Constructed(canvas)
    /\ NoCallYet
    /\ StencilIdle
    /\ BlendIdle
    /\ LoopIdle

\* The local variables of the running loop of a line.
LineLocals ==
    [deltax |-> frame.deltax, stepx |-> frame.stepx,
     deltay |-> frame.deltay, stepy |-> frame.stepy,
     error |-> frame.error, px |-> frame.px, py |-> frame.py]

\* A line function is entered.  On an axis-aligned line it runs its for loop
\* and returns; on any other it sets the local variables of the loop.
LineEnter ==
    \E fn \in LineFns, x \in Coords, y \in Coords, x2 \in LineEnds, y2 \in LineEnds :
        /\ CanCall
        /\ call' = [op |-> fn, x |-> x, y |-> y, x2 |-> x2, y2 |-> y2]
        /\ nops' = nops + 1
        /\ ret' = Unit
        /\ prev' = canvas
        /\ IF x = x2 \/ y = y2
           THEN /\ plotted' = stroke_line_calls(x, y, x2, y2)
                /\ canvas' = line_puts(fn, canvas, stroke_line_calls(x, y, x2, y2), 1)
                /\ frame' = NoFrame
           ELSE /\ plotted' = <<>>
                /\ canvas' = canvas
                /\ \E l \in {line_locals(x, y, x2, y2)} :
                      frame' = [fn |-> fn, x2 |-> x2, y2 |-> y2,
                                deltax |-> l.deltax, stepx |-> l.stepx,
                                deltay |-> l.deltay, stepy |-> l.stepy,
                                error |-> l.error, px |-> l.px, py |-> l.py]
        /\ UNCHANGED <<stencilVars, blendVars, latest, stream>>

\* One iteration of the loop: the point is put, and the loop goes on or
\* breaks.
LineStep ==
    /\ frame.fn \in LineFns
    /\ \E it \in {line_iter(LineLocals, frame.x2, frame.y2)} :
          /\ plotted' = Append(plotted, it.pt)
          /\ canvas' = line_put(frame.fn, canvas, it.pt)
          /\ frame' = IF it.break THEN NoFrame
                       ELSE [frame EXCEPT !.error = it.locals.error,
                                          !.px = it.locals.px,
                                          !.py = it.locals.py]
    /\ UNCHANGED <<prev, call, ret, nops, stencilVars, blendVars, latest, stream>>

NextLine ==
    \/ LineEnter
    \/ LineStep

SpecLine == InitLine /\ [][NextLine]_vars

\* A loop that can make its next iteration does.
SpecLineFair == SpecLine /\ WF_vars(LineStep)

(***************************************************************************)
(* SpecMask: Canvas::mask on a Canvas over a FrameBuffer, the other canvas  *)
(* being one over the StencilBuffer.                                       *)
(***************************************************************************)
InitMask ==
    /\ \E d \in Dims : canvas \in MaskCanvases(d[1], d[2])
    /\ prev = canvas
    /\ latest = Constructed(canvas)
    /\ \E d \in Dims : stencil \in MaskStencils(d[1], d[2])
    /\ stprev = stencil
    /\ NoCallYet
    /\ BlendIdle
    /\ LoopIdle

Mask ==
    \E func \in Combinators :
        /\ CanCall
        /\ LET res == mask(canvas, Canvas_new(stencil, 0, 1), func)
           IN  /\ canvas' = res.canvas
               /\ Called([op |-> "mask", func |-> func], res.calls, res.ret)
        /\ prev' = canvas
        /\ stencil' = stencil
        /\ stprev' = stencil
        /\ UNCHANGED <<blendVars, latest, loopVars>>

NextMask ==
    \/ Mask
    \/ Return

SpecMask == InitMask /\ [][NextMask]_vars

(***************************************************************************)
(* SpecWrite: one call of FrameBuffer::write, one write to the stream at a *)
(* time.  frame holds which slice write_all is writing and its offset.     *)
(***************************************************************************)
InitWrite ==
    /\ canvas \in WriteCanvases
    /\ prev = canvas
    /\ latest = [fill |-> white, stroke |-> black]
    /\ NoCallYet
    /\ StencilIdle
    /\ BlendIdle
    /\ LoopIdle

\* The slice the running write_all was given.
Slice == write_parts(canvas.buffer)[frame.part]

\* FrameBuffer::write is entered and calls write_all on the header.
WriteEnter ==
    /\ CanCall
    /\ frame' = [fn |-> "write", part |-> 1, offset |-> 0]
    /\ prev' = canvas
    /\ Called([op |-> "write"], <<>>, Pending)
    /\ UNCHANGED <<canvas, stencilVars, blendVars, latest, stream>>

\* One iteration of the loop of write_all: the stream answers the write of
\* the rest of the slice.
WriteChunk ==
    /\ frame.fn = "write"
    /\ frame.offset < Len(Slice)
    /\ \E reply \in Replies(Len(Slice) - frame.offset) :
          LET it == write_all_iter(Slice, frame.offset, reply)
          IN  /\ stream' = [accepted |-> stream.accepted \o it.chunk,
                            zeros |-> IF reply = WriteOk(0)
                                      THEN Append(stream.zeros, frame.part)
                                      ELSE stream.zeros,
                            failed |-> stream.failed \/ reply.tag = "Err",
                            partial |-> stream.partial
                                        \/ /\ reply.tag = "Ok"
                                           /\ 0 < reply.val
                                           /\ reply.val < Len(Slice) - frame.offset]
              /\ IF it.result = Pending
                 THEN frame' = [frame EXCEPT !.offset = it.offset] /\ ret' = ret
                 ELSE frame' = NoFrame /\ ret' = it.result
    /\ UNCHANGED <<canvasVars, call, nops, stencilVars, blendVars, latest>>

\* The loop of write_all is left with Ok(()): write goes on to the pixels,
\* or returns what the second write_all returned.
WriteAllReturn ==
    /\ frame.fn = "write"
    /\ ~(frame.offset < Len(Slice))
    /\ IF frame.part = 1
       THEN frame' = [frame EXCEPT !.part = 2, !.offset = 0] /\ ret' = ret
       ELSE frame' = NoFrame /\ ret' = Ok
    /\ UNCHANGED <<canvasVars, call, nops, stencilVars, blendVars, latest, stream>>

NextWrite ==
    \/ WriteEnter
    \/ WriteChunk
    \/ WriteAllReturn

SpecWrite == InitWrite /\ [][NextWrite]_vars

\* A write that can go on, or return, does.
SpecWriteFair == SpecWrite /\ WF_vars(WriteChunk \/ WriteAllReturn)

(***************************************************************************)
(* SpecBlend: Color::blend.                                                *)
(***************************************************************************)
InitBlend ==
    /\ bself \in BlendSelves
    /\ bother \in BlendOthers
    /\ bout = None
    /\ NoCallYet
    /\ CanvasIdle
    /\ StencilIdle
    /\ LoopIdle

Blend ==
    /\ bout = None
    /\ bout' = blend(bself, bother)
    /\ UNCHANGED <<bself, bother, canvasVars, stencilVars, call, plotted, ret, nops,
                   latest, loopVars>>

NextBlend == Blend

SpecBlend == InitBlend /\ [][NextBlend]_vars

(***************************************************************************)
(* What the properties below read off a state.                             *)
(***************************************************************************)
\* (x, y) is a coordinate of the buffer.
InBounds(buffer, x, y) ==
    0 <= x /\ x < buffer.width /\ 0 <= y /\ y < buffer.height

\* The coordinates of the buffer.
Points(buffer) == (0..(buffer.width - 1)) \X (0..(buffer.height - 1))

\* The color whose bytes a FrameBuffer holds for the pixel (x, y).
StoredColor(buffer, x, y) ==
    LET offset == ((y * buffer.width) + x) * 3
    IN  rgb(buffer.pixels[offset], buffer.pixels[offset + 1], buffer.pixels[offset + 2])

\* The points the last call handed to put_point, as a set.
PlottedSet == {plotted[i] : i \in DOMAIN plotted}

\* The channel the blend formula gives with destination channel d, source
\* channel s and source alpha a, in unbounded integers.
BlendSum(d, s, a) == (d * (255 - a)) + (s * a)

Mix(d, s, a) == BlendSum(d, s, a) \div 255

Channels == {"r", "g", "b"}

(***************************************************************************)
(* C1..C4: get_point and put_point on the pixel buffer.                    *)
(***************************************************************************)
\* C1: get_point(x, y), on the pixel buffer and on the stencil buffer alike,
\* returns absent, without failing, exactly when (x, y) is outside the
\* buffer, and the stored element for every coordinate inside it.
C1_GetPointBounds ==
    /\ call.op = "get_point" =>
          IF InBounds(canvas.buffer, call.x, call.y)
          THEN ret = Some(StoredColor(canvas.buffer, call.x, call.y))
          ELSE ret = None
    /\ call.op = "stencil.get_point" =>
          IF InBounds(stencil, call.x, call.y)
          THEN ret = Some(stencil.pixels[(call.y * stencil.width) + call.x])
          ELSE ret = None

\* C2: after put_point(x, y, c) with (x, y) in bounds and c.alpha = 255,
\* get_point(x, y) returns a color equal to c, whatever was written before.
C2_OpaquePutThenGet ==
    (/\ call.op = "put_point"
     /\ InBounds(canvas.buffer, call.x, call.y)
     /\ call.color.alpha = 255)
    => Canvas_get_point(canvas, call.x, call.y) = Some(call.color)

\* C3: put_point(x, y, c) with c.alpha = 0 leaves the whole buffer as it was:
\* get_point(x, y) returns what it returned before the call, and making the
\* call again changes nothing.
C3_TransparentPutIsNoOp ==
    (call.op = "put_point" /\ call.color.alpha = 0) =>
        /\ canvas = prev
        /\ Canvas_get_point(canvas, call.x, call.y)
              = Canvas_get_point(prev, call.x, call.y)
        /\ Canvas_put_point(canvas, call.x, call.y, call.color) = canvas

\* A transparent put_point on a pixel an earlier call has colored.
C3_Witness ==
    /\ call.op = "put_point"
    /\ call.color.alpha = 0
    /\ InBounds(prev.buffer, call.x, call.y)
    /\ StoredColor(prev.buffer, call.x, call.y) # black

\* C4: an in-bounds put_point(x, y, c) with 0 < c.alpha < 255 stores in the
\* R, G and B of pixel (x, y) the channels Color::blend yields with the pixel
\* as destination and c as source, (old*(255 - c.alpha) + c.channel*c.alpha)
\* / 255 truncated, and changes no other pixel.
C4_TranslucentPutBlends ==
    (/\ call.op = "put_point"
     /\ InBounds(prev.buffer, call.x, call.y)
     /\ 0 < call.color.alpha
     /\ call.color.alpha < 255)
    => LET old == StoredColor(prev.buffer, call.x, call.y)
           new == StoredColor(canvas.buffer, call.x, call.y)
           c == call.color
       IN  /\ new = blend(old, c)
           /\ \A ch \in Channels : new[ch] = Mix(old[ch], c[ch], c.alpha)
           /\ canvas.buffer.width = prev.buffer.width
           /\ canvas.buffer.height = prev.buffer.height
           /\ \A p \in Points(prev.buffer) :
                 p # <<call.x, call.y>> =>
                    StoredColor(canvas.buffer, p[1], p[2])
                       = StoredColor(prev.buffer, p[1], p[2])

\* A translucent put_point over a pixel an earlier call has colored, which
\* changes all three channels of it.
C4_Witness ==
    /\ call.op = "put_point"
    /\ InBounds(prev.buffer, call.x, call.y)
    /\ 0 < call.color.alpha
    /\ call.color.alpha < 255
    /\ StoredColor(prev.buffer, call.x, call.y) # black
    /\ \A ch \in Channels :
          StoredColor(canvas.buffer, call.x, call.y)[ch]
             # StoredColor(prev.buffer, call.x, call.y)[ch]

(***************************************************************************)
(* C5, C6: Color::blend.                                                   *)
(***************************************************************************)
\* C5: self.blend(other) has each channel equal to (self_channel*(255 -
\* other.alpha) + other_channel*other.alpha) / 255, truncated, the sum fitting
\* 16 bits, and has the alpha of self.
C5_BlendFormula ==
    bout # None =>
        /\ \A ch \in Channels :
              /\ BlendSum(bself[ch], bother[ch], bother.alpha) < 65536
              /\ bout[ch] = Mix(bself[ch], bother[ch], bother.alpha)
        /\ bout.alpha = bself.alpha

\* A blend of a translucent source whose alpha differs from the
\* destination's and whose result differs from both colors.
C5_Witness ==
    /\ bout # None
    /\ bother.alpha \notin {0, 255, bself.alpha}
    /\ bout.r # bself.r
    /\ bout.r # bother.r

\* C6, as amended: blending a source with alpha 128 and channel 200 over the
\* destination (100, 100, 100, 255) gives the channel
\* (100*(255 - 128) + 200*128) / 255 truncated, which is 150.
C6_BlendLaw ==
    (bout # None /\ bself = rgba(100, 100, 100, 255) /\ bother.alpha = 128) =>
        \A ch \in Channels :
            bother[ch] = 200 =>
                /\ bout[ch] = ((100 * (255 - 128)) + (200 * 128)) \div 255
                /\ bout[ch] = 150

\* The blend of the law has been computed.
C6_Witness ==
    /\ bout # None
    /\ bself = rgba(100, 100, 100, 255)
    /\ bother = rgba(200, 200, 200, 128)

\* C6, as claimed: the channel is (100*(255 - 128) + 200*128) / 255
\* truncated, which is 149.
C6_BlendLaw149 ==
    (bout # None /\ bself = rgba(100, 100, 100, 255) /\ bother.alpha = 128) =>
        \A ch \in Channels :
            bother[ch] = 200 =>
                /\ bout[ch] = ((100 * (255 - 128)) + (200 * 128)) \div 255
                /\ bout[ch] = 149

(***************************************************************************)
(* C7: put_point on the stencil buffer.                                    *)
(***************************************************************************)
\* C7: put_point(x, y, v) on a stencil buffer sets cell (x, y) to v and
\* changes no other cell when (x, y) is in bounds, and is a no-op that does
\* not fail when it is not.
C7_StencilPut ==
    call.op = "stencil.put_point" =>
        /\ ret = Unit
        /\ IF InBounds(stprev, call.x, call.y)
           THEN stencil = [stprev EXCEPT
                              !.pixels[(call.y * stprev.width) + call.x] = call.color]
           ELSE stencil = stprev

(***************************************************************************)
(* C8..C10: rectangles and horizontal lines.                               *)
(***************************************************************************)
\* (px, py) lies in the rectangle the last call was given.
InRect(px, py) ==
    /\ call.x <= px /\ px < call.x + call.width
    /\ call.y <= py /\ py < call.y + call.height

\* The pixels of the buffer that hold the color c.
Holding(buffer, c) == {p \in Points(buffer) : StoredColor(buffer, p[1], p[2]) = c}

\* C8: fill_rect(x, y, w, h) with an opaque fill sets exactly the pixels of
\* the buffer with x <= px < x + w and y <= py < y + h to the fill and leaves
\* every other pixel as it was; fill_rect(2, 2, 3, 3) with white on a black
\* 10 x 10 buffer leaves 9 white and 91 black pixels.
C8_FillRectExact ==
    (call.op = "fill_rect" /\ prev.fill.alpha = 255) =>
        /\ canvas.buffer.width = prev.buffer.width
        /\ canvas.buffer.height = prev.buffer.height
        /\ \A p \in Points(prev.buffer) :
              StoredColor(canvas.buffer, p[1], p[2])
                 = IF InRect(p[1], p[2]) THEN prev.fill
                   ELSE StoredColor(prev.buffer, p[1], p[2])
        /\ (/\ prev.buffer = FrameBuffer_new(10, 10)
            /\ prev.fill = white
            /\ call = [op |-> "fill_rect", x |-> 2, y |-> 2, width |-> 3, height |-> 3])
           => /\ Cardinality(Holding(canvas.buffer, white)) = 9
              /\ Cardinality(Holding(canvas.buffer, black)) = 91

\* An opaque fill_rect that overhangs the buffer, recolors a pixel inside it
\* and leaves alone a pixel an earlier call has colored.
C8_Witness ==
    /\ call.op = "fill_rect"
    /\ prev.fill.alpha = 255
    /\ call.x + call.width > prev.buffer.width
    /\ \E p \in Points(prev.buffer) :
          /\ InRect(p[1], p[2])
          /\ StoredColor(prev.buffer, p[1], p[2]) # prev.fill
    /\ \E p \in Points(prev.buffer) :
          /\ ~InRect(p[1], p[2])
          /\ StoredColor(prev.buffer, p[1], p[2]) # black

\* The border of the rectangle with corner (x, y), width w and height h.
Border(x, y, w, h) ==
    {p \in (x..(x + w - 1)) \X (y..(y + h - 1)) :
        \/ p[2] = y
        \/ p[2] = y + h - 1
        \/ p[1] = x
        \/ p[1] = x + w - 1}

\* C9: stroke_rect(x, y, w, h) writes the stroke to exactly the border pixels
\* of the rectangle: the top row and the bottom row in full, and the left and
\* the right column in the rows between.  Stated for w >= 1 and h >= 1.
C9_StrokeRectBorder ==
    (call.op = "stroke_rect" /\ call.width >= 1 /\ call.height >= 1) =>
        PlottedSet = Border(call.x, call.y, call.width, call.height)

\* C10: a horizontal line from (x, y) to (x2, y) drawn with stroke_line or
\* fill_line plots only pixels in row y, and plots every x from x through x2.
\* Stated for x < x2.
C10_HorizontalLine ==
    (/\ call.op \in {"stroke_line", "fill_line"}
     /\ call.y = call.y2
     /\ call.x < call.x2)
    => PlottedSet = {<<px, call.y>> : px \in call.x..call.x2}

(***************************************************************************)
(* C11: the circle of radius 0.                                            *)
(***************************************************************************)
\* The last call is a circle call of the function fn.
CircleCall(fn) == call.op = fn

\* The call is over: its loop has been left.
Left == frame = NoFrame

\* C11: stroke_circle(cx, cy, 0) terminates, and the set of pixels it writes
\* is exactly {(cx, cy)}: it hands no other point to put_point, the pixel
\* (cx, cy) of the buffer holds the stroke when it lies inside, and no other
\* pixel changes.
C11_DegenerateCircle ==
    /\ []((CircleCall("stroke_circle") /\ call.r = 0) =>
             /\ PlottedSet \subseteq {<<call.x, call.y>>}
             /\ Left =>
                   /\ PlottedSet = {<<call.x, call.y>>}
                   /\ \A p \in Points(prev.buffer) :
                         StoredColor(canvas.buffer, p[1], p[2])
                            = IF p = <<call.x, call.y>> THEN prev.stroke
                              ELSE StoredColor(prev.buffer, p[1], p[2]))
    /\ (CircleCall("stroke_circle") /\ call.r = 0 /\ ~Left) ~> Left

\* stroke_circle with radius 0 has returned and has recolored its center.
C11_Witness ==
    /\ CircleCall("stroke_circle")
    /\ call.r = 0
    /\ Left
    /\ InBounds(prev.buffer, call.x, call.y)
    /\ StoredColor(canvas.buffer, call.x, call.y)
          # StoredColor(prev.buffer, call.x, call.y)

(***************************************************************************)
(* C12, C13: Canvas::mask.                                                 *)
(***************************************************************************)
\* The two buffers of the last mask call have the same width and height.
SameDimensions ==
    /\ prev.buffer.width = stprev.width
    /\ prev.buffer.height = stprev.height

\* C12: mask(other, combinator) on canvases whose buffers differ in width or
\* in height is a no-op: the canvas is unchanged, the combinator is applied
\* nowhere and the call returns normally.
C12_MaskMismatchNoOp ==
    (call.op = "mask" /\ ~SameDimensions) =>
        /\ canvas = prev
        /\ plotted = <<>>
        /\ ret = Unit
        /\ stencil = stprev

\* A mask call on buffers of the same width and different heights, with a
\* combinator that would change every pixel it is applied to.
C12_Witness ==
    /\ call = [op |-> "mask", func |-> "stamp"]
    /\ prev.buffer.width = stprev.width
    /\ prev.buffer.height # stprev.height
    /\ \E i \in DOMAIN stprev.pixels : stprev.pixels[i] # 0

\* C13: mask(other, combinator) on canvases of the same dimensions W x H
\* applies the combinator once at every coordinate, in row order, to the
\* elements of self and other there, writes the result back to self, and
\* leaves the buffer of other unchanged.
C13_MaskEveryCell ==
    (call.op = "mask" /\ SameDimensions) =>
        /\ ret = Unit
        /\ plotted = Grid(0, prev.buffer.width, 0, prev.buffer.height)
        /\ canvas.buffer.width = prev.buffer.width
        /\ canvas.buffer.height = prev.buffer.height
        /\ \A p \in Points(prev.buffer) :
              StoredColor(canvas.buffer, p[1], p[2])
                 = Apply(call.func, StoredColor(prev.buffer, p[1], p[2]),
                         stprev.pixels[(p[2] * stprev.width) + p[1]])
        /\ stencil = stprev

(***************************************************************************)
(* C14..C16: FrameBuffer::write.                                           *)
(***************************************************************************)
\* The number a sequence of ASCII digits denotes.
RECURSIVE DecimalValue(_)
DecimalValue(d) ==
    IF d = <<>> THEN 0
    ELSE (10 * DecimalValue(SubSeq(d, 1, Len(d) - 1))) + (d[Len(d)] - 48)

\* d is the decimal numeral of n: digits only, no leading zero.
IsDecimalOf(d, n) ==
    /\ Len(d) >= 1
    /\ \A i \in DOMAIN d : d[i] \in 48..57
    /\ Len(d) > 1 => d[1] # 48
    /\ DecimalValue(d) = n

\* out is 'P6\n<width> <height>\n255\n', the numerals taking a and b bytes.
IsHeader(out, a, b, width, height) ==
    /\ Len(out) = 3 + a + 1 + b + 5
    /\ SubSeq(out, 1, 3) = << 80, 54, 10 >>
    /\ IsDecimalOf(SubSeq(out, 4, 3 + a), width)
    /\ out[4 + a] = 32
    /\ IsDecimalOf(SubSeq(out, 5 + a, 4 + a + b), height)
    /\ SubSeq(out, 5 + a + b, 9 + a + b) = << 10, 50, 53, 53, 10 >>

\* s is a prefix of t.
IsPrefix(s, t) == Len(s) <= Len(t) /\ s = SubSeq(t, 1, Len(s))

\* The last call is write, and it has returned.
Written == call.op = "write" /\ Left

\* Every byte write is to emit for the buffer of the canvas.
Full == header(canvas.buffer) \o pixel_bytes(canvas.buffer)

\* C14: written to a stream that takes every byte, a buffer comes out as the
\* header 'P6\n<width> <height>\n255\n' and width*height*3 bytes, the pixel
\* (x, y) at the bytes 3*(y*width + x).. as R, G, B, which is where an
\* opaque put_point(x, y, c) stores c; a new 4 x 4 buffer comes out as
\* 'P6\n4 4\n255\n' and 48 zero bytes.
C14_WriteFormat ==
    (Written /\ stream.zeros = <<>> /\ ~stream.failed) =>
        LET b == canvas.buffer
            out == stream.accepted
            n == (b.width * b.height) * 3
        IN  /\ ret = Ok
            /\ \E d1 \in 1..3, d2 \in 1..3 :
                  /\ Len(out) = 9 + d1 + d2 + n
                  /\ IsHeader(SubSeq(out, 1, 9 + d1 + d2), d1, d2, b.width, b.height)
                  /\ \A p \in Points(b) :
                        LET at == 9 + d1 + d2 + (3 * ((p[2] * b.width) + p[1]))
                            c == rgb(out[at + 1], out[at + 2], out[at + 3])
                        IN  /\ c = StoredColor(b, p[1], p[2])
                            /\ \A k \in {white, rgb(200, 100, 50)} :
                                  LET put == pixel_bytes(FrameBuffer_put_point(b, p[1], p[2], k))
                                      to == 3 * ((p[2] * b.width) + p[1])
                                  IN  rgb(put[to + 1], put[to + 2], put[to + 3]) = k
            /\ b = FrameBuffer_new(4, 4) =>
                  out = << 80, 54, 10, 52, 32, 52, 10, 50, 53, 53, 10 >>
                        \o [i \in 1..48 |-> 0]

\* A buffer that is higher than wide and holds a colored pixel has been
\* written out in full.
C14_Witness ==
    /\ Written
    /\ ret = Ok
    /\ canvas.buffer.width < canvas.buffer.height
    /\ \E i \in DOMAIN canvas.buffer.pixels : canvas.buffer.pixels[i] # 0

\* C15: when the stream takes only part of each write (sizes >= 1), write
\* goes on with the rest until every byte is written: it returns, with
\* success, and what the stream has taken is at every moment a prefix of the
\* header followed by the pixels, and all of it in the end.
C15_PartialWrites ==
    /\ [](call.op = "write" =>
             /\ IsPrefix(stream.accepted, Full)
             /\ (Left /\ stream.zeros = <<>> /\ ~stream.failed) =>
                   /\ ret = Ok
                   /\ stream.accepted = Full)
    /\ (call.op = "write" /\ ~Left) ~> Left

\* A write has returned with success although the stream took some write
\* only in part.
C15_Witness ==
    /\ Written
    /\ ret = Ok
    /\ stream.partial
    /\ \E i \in DOMAIN canvas.buffer.pixels : canvas.buffer.pixels[i] # 0

\* C16: when the stream answers a write with a size of zero, write returns
\* at once with an error of the kind Interrupted: the stream is written to
\* no more, and when this happens in the header no byte of the pixels has
\* been or will be written.
C16_ZeroWriteInterrupts ==
    /\ []((call.op = "write" /\ stream.zeros # <<>>) =>
             /\ Left
             /\ ret = Err("Interrupted")
             /\ Len(stream.zeros) = 1
             /\ stream.zeros[1] = 1 =>
                   /\ Len(stream.accepted) < Len(header(canvas.buffer))
                   /\ IsPrefix(stream.accepted, header(canvas.buffer)))
    /\ [][stream.zeros # <<>> => stream' = stream]_vars

\* The stream has answered with a size of zero in the middle of the header.
C16_Witness ==
    /\ call.op = "write"
    /\ stream.zeros = << 1 >>
    /\ stream.accepted # <<>>

(***************************************************************************)
(* C17: the painter state.                                                 *)
(***************************************************************************)
FillOps == {"fill", "fill_point", "fill_rect", "fill_line", "fill_circle"}

StrokeOps == {"stroke_point", "stroke_rect", "stroke_line", "stroke_circle"}

\* The buffer after put_point of the color at pts[lo], ..., pts[hi], in order.
RECURSIVE PutAllFrom(_, _, _, _, _)
PutAllFrom(buffer, pts, color, lo, hi) ==
    IF lo > hi THEN buffer
    ELSE IF lo = hi THEN FrameBuffer_put_point(buffer, pts[lo][1], pts[lo][2], color)
    ELSE LET mid == (lo + hi) \div 2
         IN  Only({PutAllFrom(b, pts, color, mid + 1, hi) :
                      b \in {PutAllFrom(buffer, pts, color, lo, mid)}})

PutAll(buffer, pts, color) == PutAllFrom(buffer, pts, color, 1, Len(pts))

\* C17: every fill_* call writes the value of the most recent set_fill (the
\* fill of Canvas::new when there was none) and every stroke_* call that of
\* the most recent set_stroke; set_fill and set_stroke change neither the
\* buffer nor the other paint, and no drawing call changes a paint.
C17_PainterState ==
    /\ latest = Constructed(canvas)
    /\ call.op \in FillOps =>
          /\ canvas.buffer = PutAll(prev.buffer, plotted, latest.fill)
          /\ Constructed(canvas) = Constructed(prev)
    /\ call.op \in StrokeOps =>
          /\ canvas.buffer = PutAll(prev.buffer, plotted, latest.stroke)
          /\ Constructed(canvas) = Constructed(prev)
    /\ call.op = "set_fill" =>
          /\ canvas.fill = call.color
          /\ canvas.buffer = prev.buffer
          /\ canvas.stroke = prev.stroke
    /\ call.op = "set_stroke" =>
          /\ canvas.stroke = call.color
          /\ canvas.buffer = prev.buffer
          /\ canvas.fill = prev.fill

\* fill_circle has colored the buffer with a fill that only set_fill can have
\* given, the stroke being another color.
C17_Witness ==
    /\ call.op = "fill_circle"
    /\ latest.fill = rgba(200, 200, 200, 128)
    /\ latest.stroke # latest.fill
    /\ canvas.buffer # prev.buffer

(***************************************************************************)
(* C18: the general line.                                                  *)
(***************************************************************************)
\* The last call draws a line that is neither horizontal nor vertical.
GeneralLine ==
    /\ call.op \in LineFns
    /\ call.x # call.x2
    /\ call.y # call.y2

\* C18: on a line that is not axis-aligned the loop of stroke_line, fill_line
\* and gstroke_line terminates, and the points it plots are a connected
\* path: the first is (x, y), the last is (x2, y2), and each is reached from
\* the one before by a step of 0 or sx in x and of 0 or sy in y, not both 0.
C18_ConnectedLine ==
    /\ [](GeneralLine =>
             /\ plotted # <<>> => plotted[1] = <<call.x, call.y>>
             /\ \A i \in 1..(Len(plotted) - 1) :
                   LET dx == plotted[i + 1][1] - plotted[i][1]
                       dy == plotted[i + 1][2] - plotted[i][2]
                   IN  /\ dx \in {0, Signum(call.x2 - call.x)}
                       /\ dy \in {0, Signum(call.y2 - call.y)}
                       /\ dx # 0 \/ dy # 0
             /\ Left =>
                   /\ plotted # <<>>
                   /\ plotted[Len(plotted)] = <<call.x2, call.y2>>
                   /\ plotted = stroke_line_calls(call.x, call.y, call.x2, call.y2))
    /\ (GeneralLine /\ ~Left) ~> Left

\* A line going left, neither diagonal nor axis-aligned, has been drawn with
\* a step in both axes at once and a step in one.
C18_Witness ==
    /\ GeneralLine
    /\ Left
    /\ call.x2 < call.x
    /\ \E i \in 1..(Len(plotted) - 1) :
          /\ plotted[i + 1][1] # plotted[i][1]
          /\ plotted[i + 1][2] # plotted[i][2]
    /\ \E i \in 1..(Len(plotted) - 1) :
          \/ plotted[i + 1][1] = plotted[i][1]
          \/ plotted[i + 1][2] = plotted[i][2]

(***************************************************************************)
(* C19, C20: the circles.                                                  *)
(***************************************************************************)
\* C19: fill_circle(cx, cy, r) fills, at each pair of scanlines cy + rely and
\* cy - rely, the span between cx + relx and cx - relx, so that the filled
\* pixels mirror about the center: (cx + a, cy + b) is filled exactly when
\* (cx - a, cy + b), (cx + a, cy - b) and (cx - a, cy - b) are.
C19_FillCircleSymmetric ==
    /\ frame.fn = "fill_circle" =>
          \A i \in DOMAIN frame.lines :
              \A px \in (frame.x + frame.lines[i].relx)..(frame.x - frame.lines[i].relx) :
                  /\ <<px, frame.y + frame.lines[i].rely>> \in PlottedSet
                  /\ <<px, frame.y - frame.lines[i].rely>> \in PlottedSet
    /\ (CircleCall("fill_circle") /\ Left) =>
          \A a \in 0..call.r, b \in 0..call.r :
              LET filled(p) == p \in PlottedSet
              IN  /\ filled(<<call.x + a, call.y + b>>) <=> filled(<<call.x - a, call.y + b>>)
                  /\ filled(<<call.x + a, call.y + b>>) <=> filled(<<call.x + a, call.y - b>>)
                  /\ filled(<<call.x + a, call.y + b>>) <=> filled(<<call.x - a, call.y - b>>)

\* The last call is stroke_circle or fill_circle.
AnyCircleCall == call.op \in {"stroke_circle", "fill_circle"}

\* The loop of a circle is running.
InCircle == frame.fn \in {"stroke_circle", "fill_circle"}

\* The points of the square of half side r around (x, y).
InSquare(p, x, y, r) ==
    /\ x - r <= p[1] /\ p[1] <= x + r
    /\ y - r <= p[2] /\ p[2] <= y + r

\* C20: the loop of stroke_circle and fill_circle starts from relx = -r,
\* rely = 0, error = -2r + 2; every iteration increments relx or rely; the
\* loop is left, relx being above 0; at every plot step -r <= relx <= 0 and
\* 0 <= rely <= r, so that every plotted point lies in the square
\* [cx - r, cx + r] x [cy - r, cy + r]; and for r < 0 nothing is drawn.
C20_CircleLoop ==
    /\ [](AnyCircleCall =>
             /\ \A i \in DOMAIN plotted : InSquare(plotted[i], call.x, call.y, call.r)
             /\ call.r < 0 => (plotted = <<>> /\ canvas = prev)
             /\ InCircle =>
                   /\ frame.iterations = 0 =>
                         /\ frame.relx = -call.r
                         /\ frame.rely = 0
                         /\ frame.error = (-2 * call.r) + 2
                   /\ \A i \in DOMAIN frame.lines :
                         /\ -call.r <= frame.lines[i].relx
                         /\ frame.lines[i].relx <= 0
                         /\ 0 <= frame.lines[i].rely
                         /\ frame.lines[i].rely <= call.r)
    /\ [][(InCircle /\ frame'.fn = frame.fn)
             => (frame'.relx > frame.relx \/ frame'.rely > frame.rely)]_vars
    /\ [][(InCircle /\ frame' = NoFrame) => frame.relx > 0]_vars
    /\ (AnyCircleCall /\ ~Left) ~> Left

\* stroke_circle with a radius of 3 or more has returned, having plotted a
\* point on the left edge of the square and one on its top edge.
C20_Witness ==
    /\ CircleCall("stroke_circle")
    /\ Left
    /\ call.r >= 3
    /\ <<call.x - call.r, call.y>> \in PlottedSet
    /\ <<call.x, call.y + call.r>> \in PlottedSet

(***************************************************************************)
(* C21: the ends of a line.                                                *)
(***************************************************************************)
\* The last call is stroke_line or fill_line.
LineCall == call.op \in {"stroke_line", "fill_line"}

\* C21: every stroke_line and fill_line call from (x, y) to (x2, y2) plots
\* its start point (x, y) and its end point (x2, y2), axis-aligned or not
\* and in either direction, a zero-length line included; and an
\* axis-aligned line covers the same pixels as its reverse.
C21_LineEnds ==
    LineCall =>
        /\ <<call.x, call.y>> \in PlottedSet
        /\ <<call.x2, call.y2>> \in PlottedSet
        /\ (call.x = call.x2 \/ call.y = call.y2) =>
              PlottedSet =
                  LET reverse == stroke_line_calls(call.x2, call.y2, call.x, call.y)
                  IN  {reverse[i] : i \in DOMAIN reverse}

(***************************************************************************)
(* C22: the filled circle and its outline.                                 *)
(***************************************************************************)
\* The pixels stroke_circle plots for the arguments of the last call.
Outline ==
    LET pts == stroke_circle_calls(call.x, call.y, call.r)
    IN  {pts[i] : i \in DOMAIN pts}

\* C22: for every r >= 0, once fill_circle(cx, cy, r) has returned it has
\* written every pixel that stroke_circle(cx, cy, r) plots, and the center
\* pixel (cx, cy).
C22_FillCoversOutline ==
    (CircleCall("fill_circle") /\ Left /\ call.r >= 0) =>
        /\ <<call.x, call.y>> \in PlottedSet
        /\ Outline \subseteq PlottedSet

====
